---- MODULE Spec2Model ----
(***************************************************************************)
(* Model of CalcWatercourseLength.py: calcWaterCourseLength and            *)
(* calcWaterCourseLengthBlockage, the two worklist traversals over a river *)
(* network whose segments are connected by endpoint proximity.             *)
(*                                                                         *)
(* Coordinates are integers.  Every comparison the code makes on a square  *)
(* root (dist <= tolerance, min(dists)) is made here on the squares, which *)
(* is the same comparison because sqrt is monotone; lengths are sums of    *)
(* square roots and the geometries drawn below have steps whose length is  *)
(* an integer, so ISqrt is exact on them.                                  *)
(***************************************************************************)
EXTENDS Integers, Sequences, FiniteSets, TLC

VARIABLES network, blockage, starting_fid, direction, tolerance,
          possible_vertex, found_vertex, feat, cur_coord, potential_fids,
          selected, length, pc, err, plan, calls,
          network0, expanded, truncated, prev

vars == <<network, blockage, starting_fid, direction, tolerance,
          possible_vertex, found_vertex, feat, cur_coord, potential_fids,
          selected, length, pc, err, plan, calls,
          network0, expanded, truncated, prev>>

(***************************************************************************)
(* Bounds of the model.                                                    *)
(***************************************************************************)
MaxCalls == 2
MaxTol == 2

(***************************************************************************)
(* Program constants.                                                      *)
(***************************************************************************)
BufferRadius == 1

(***************************************************************************)
(* Arithmetic and sequences.                                               *)
(***************************************************************************)
Sq(x) == x * x

ISqrt(n) == CHOOSE k \in 0..n : k * k <= n /\ (k + 1) * (k + 1) > n

DistSq(p, q) == Sq(p[1] - q[1]) + Sq(p[2] - q[2])

Dist(p, q) == ISqrt(DistSq(p, q))

Prefix(s, n) == [i \in 1..n |-> s[i]]

IsPrefixOf(s, t) == Len(s) <= Len(t) /\ \A i \in 1..Len(s) : s[i] = t[i]

InSeq(x, s) == \E i \in 1..Len(s) : s[i] = x

SeqSet(s) == {s[i] : i \in 1..Len(s)}

NoDup(s) == \A i, j \in 1..Len(s) : s[i] = s[j] => i = j

\* Python's seq[k] for k >= 0 or k < 0 (0-based, negative from the end).
PyIndexOK(s, k) == IF k >= 0 THEN k < Len(s) ELSE -k <= Len(s)

PyIndex(s, k) == IF k >= 0 THEN s[k + 1] ELSE s[Len(s) + k + 1]

(***************************************************************************)
(* Geometry provider: the shapely/geopandas predicates the code calls,     *)
(* computed exactly on integer coordinates.                                *)
(***************************************************************************)
Sign(x) == IF x > 0 THEN 1 ELSE IF x < 0 THEN -1 ELSE 0

Min2(a, b) == IF a <= b THEN a ELSE b

Max2(a, b) == IF a >= b THEN a ELSE b

\* Orientation of r relative to the directed line p -> q.
Orient(p, q, r) ==
    Sign((q[1] - p[1]) * (r[2] - p[2]) - (q[2] - p[2]) * (r[1] - p[1]))

\* r, known collinear with p and q, lies on the closed segment p q.
OnSegment(p, q, r) ==
    /\ Min2(p[1], q[1]) <= r[1] /\ r[1] <= Max2(p[1], q[1])
    /\ Min2(p[2], q[2]) <= r[2] /\ r[2] <= Max2(p[2], q[2])

\* Closed segments a b and c d share a point.
SegSeg(a, b, c, d) ==
    LET o1 == Orient(a, b, c)
        o2 == Orient(a, b, d)
        o3 == Orient(c, d, a)
        o4 == Orient(c, d, b)
    IN  \/ (o1 # o2 /\ o3 # o4)
        \/ (o1 = 0 /\ OnSegment(a, b, c))
        \/ (o2 = 0 /\ OnSegment(a, b, d))
        \/ (o3 = 0 /\ OnSegment(c, d, a))
        \/ (o4 = 0 /\ OnSegment(c, d, b))

\* The query box of lines 48-53: the square of half-width tol around c.
InBox(p, c, tol) ==
    /\ c[1] - tol <= p[1] /\ p[1] <= c[1] + tol
    /\ c[2] - tol <= p[2] /\ p[2] <= c[2] + tol

BoxCorners(c, tol) ==
    << <<c[1] - tol, c[2] - tol>>, <<c[1] - tol, c[2] + tol>>,
       <<c[1] + tol, c[2] + tol>>, <<c[1] + tol, c[2] - tol>> >>

\* The closed segment a b meets the closed box: an end inside it, or a
\* crossing of one of its four sides.
SegBox(a, b, c, tol) ==
    LET k == BoxCorners(c, tol)
    IN  \/ InBox(a, c, tol)
        \/ InBox(b, c, tol)
        \/ \E i \in 1..4 : SegSeg(a, b, k[i], k[(i % 4) + 1])

\* geometry.intersects(buffer): an empty geometry intersects nothing.
Intersects(coords, c, tol) ==
    /\ Len(coords) >= 2
    /\ \E i \in 1..(Len(coords) - 1) : SegBox(coords[i], coords[i + 1], c, tol)

\* Squared distance of p to the closed segment a b is below r * r.
NearSeg(p, a, b, r) ==
    LET dx == b[1] - a[1]
        dy == b[2] - a[2]
        len2 == dx * dx + dy * dy
        t == (p[1] - a[1]) * dx + (p[2] - a[2]) * dy
        cross == (p[1] - a[1]) * dy - (p[2] - a[2]) * dx
    IN  IF t <= 0 THEN DistSq(p, a) < r * r
        ELSE IF t >= len2 THEN DistSq(p, b) < r * r
        ELSE cross * cross < r * r * len2

\* point.within(geometry.buffer(r)): strictly inside the buffer; the buffer
\* of an empty geometry is empty.
WithinBuffer(p, coords, r) ==
    /\ Len(coords) >= 2
    /\ \E i \in 1..(Len(coords) - 1) : NearSeg(p, coords[i], coords[i + 1], r)

\* geometry.length: the sum of the consecutive-vertex distances.
RECURSIVE LengthFrom(_, _)
LengthFrom(coords, i) ==
    IF i >= Len(coords) THEN 0
    ELSE Dist(coords[i], coords[i + 1]) + LengthFrom(coords, i + 1)

Length(coords) == LengthFrom(coords, 1)

\* LineString(coords) raises on exactly one coordinate tuple.
LineStringOK(coords) == Len(coords) # 1

(***************************************************************************)
(* Inputs.  A network is a frame of rows with ids 1, 2, 3 in row order and *)
(* one polyline each; the polylines are laid out along a main stem         *)
(* (LineA, LineB, LineC), with a side branch that starts exactly one unit  *)
(* from the stem (LineD), one that starts at distance sqrt(2) (LineE), a   *)
(* hook whose last vertex turns back over its own first step (LineF) and a *)
(* return line that closes a cycle (LineG).                                *)
(***************************************************************************)
LineA == << <<0, 0>>, <<2, 0>> >>

LineB == << <<2, 0>>, <<3, 0>>, <<4, 0>> >>

LineC == << <<4, 0>>, <<5, 0>>, <<6, 0>>, <<7, 0>>, <<8, 0>> >>

LineD == << <<2, 1>>, <<2, 3>> >>

LineE == << <<3, 1>>, <<3, 3>> >>

LineF == << <<2, 0>>, <<6, 0>>, <<6, 1>>, <<4, 1>> >>

LineG == << <<4, 0>>, <<4, -3>>, <<0, -3>>, <<0, 0>> >>

Lines == {LineA, LineB, LineC, LineD, LineE, LineF, LineG}

Ids == {1, 2, 3}

\* The row order of the frame: the order every boolean-mask selection keeps.
Rows == <<1, 2, 3>>

Networks == [Ids -> Lines]

\* A start id of 0 is no row of the network.
StartIds == Ids \cup {0}

Directions == {0, 1}

Tolerances == 1..MaxTol

BlockagePoints == {<<1, 0>>, <<3, 0>>, <<4, 0>>, <<6, 0>>}

Blockages ==
    {<<>>} \cup {<<p>> : p \in BlockagePoints}
           \cup {<< <<6, 0>>, <<4, 0>> >>}

NoResult == [fn |-> "none", found |-> <<>>, expanded |-> <<>>,
             selected |-> <<>>, length |-> 0, network |-> <<>>]

(***************************************************************************)
(* Frame selections.                                                       *)
(***************************************************************************)
\* Variant: the start id is taken as it is given.
RowsWithIdUnchecked(fid) == <<fid>>

\* list(network[network[fid_col] == fid][fid_col])
RowsWithId(fid) == SelectSeq(Rows, LAMBDA r : r = fid)

\* list(network[network.intersects(buffer)][fid_col])
ProximalFids(net, c, tol) == SelectSeq(Rows, LAMBDA r : Intersects(net[r], c, tol))

\* blockage[blockage.within(next_feat.buffer(1).unary_union)]
TheBlockage(blk, coords) ==
    SelectSeq(blk, LAMBDA b : WithinBuffer(b, coords, BufferRadius))

\* Variant: the rows are taken from the frame as it was loaded.
SelectedAsLoaded(net, found) ==
    [r \in {q \in Ids : InSeq(q, found)} |-> network0[r]]

\* network[network[fid_col].isin(found_vertex)].copy()
Selected(net, found) == [r \in {q \in Ids : InSeq(q, found)} |-> net[r]]

\* sum(selected.geometry.length)
RECURSIVE SumLength(_, _)
SumLength(sel, todo) ==
    IF todo = {} THEN 0
    ELSE LET r == CHOOSE q \in todo : TRUE
         IN  Length(sel[r]) + SumLength(sel, todo \ {r})

TotalLength(sel) == SumLength(sel, DOMAIN sel)

\* coords[0 - direction] of the dequeued feature, coords[direction - 1] of
\* the candidate.
LeadIndex(dir) == 0 - dir

\* Variant: the candidate is indexed like the dequeued feature.
FarIndexSameEnd(dir) == 0 - dir

FarIndex(dir) == dir - 1

\* Variant: dist < tolerance.
ConnectedStrict(cur, next, tol) == DistSq(next, cur) < tol * tol

\* dist <= tolerance
Connected(cur, next, tol) == DistSq(next, cur) <= tol * tol

\* dists.index(min(dists)), 0-based
RECURSIVE ArgMinFrom(_, _, _, _)
ArgMinFrom(coords, b, i, best) ==
    IF i > Len(coords) THEN best - 1
    ELSE IF DistSq(coords[i], b) < DistSq(coords[best], b)
         THEN ArgMinFrom(coords, b, i + 1, i)
         ELSE ArgMinFrom(coords, b, i + 1, best)

NearestIndex(coords, b) == ArgMinFrom(coords, b, 1, 1)

\* coords[:idx]
LineTilWeir(coords, b) == Prefix(coords, NearestIndex(coords, b))

(***************************************************************************)
(* State.  network is the caller's frame (id -> stored vertex list), which *)
(* both functions read and the blockage-aware one writes in place; plan is *)
(* the caller's sequence of calls on it, as in the __main__ block.  The    *)
(* history variables network0 (the frame as loaded), expanded (the ids     *)
(* popped in this call, in order), truncated (the ids whose geometry this  *)
(* call replaced) and prev (what the previous call returned) are read by   *)
(* the properties only.                                                    *)
(***************************************************************************)
Running == IF calls = 0 THEN "none" ELSE plan[calls]

\* The frame as the running call received it.
NetworkIn == IF calls <= 1 THEN network0 ELSE prev.network

InitWith(plans, blockages) ==
    /\ network \in Networks
    /\ network0 = network
    /\ blockage \in blockages
    /\ starting_fid \in StartIds
    /\ direction \in Directions
    /\ tolerance \in Tolerances
    /\ plan \in plans
    /\ calls = 0
    /\ possible_vertex = <<>>
    /\ found_vertex = <<>>
    /\ feat = 0
    /\ cur_coord = <<0, 0>>
    /\ potential_fids = <<>>
    /\ selected = <<>>
    /\ length = 0
    /\ pc = "idle"
    /\ err = "none"
    /\ expanded = <<>>
    /\ truncated = {}
    /\ prev = NoResult

\* The caller runs the blockage-aware traversal, again and again on the
\* frame the previous call left.
Init == InitWith({[i \in 1..MaxCalls |-> "blockage"]}, Blockages)

\* The caller runs the plain traversal only.
InitPlain == InitWith({[i \in 1..MaxCalls |-> "plain"]}, {<<>>})

\* The caller runs one of the two functions, again and again.
InitCalls ==
    \/ InitWith({[i \in 1..MaxCalls |-> "plain"]}, {<<>>})
    \/ InitWith({[i \in 1..MaxCalls |-> "blockage"]}, Blockages)

\* The caller runs one of the two functions, once.
InitOnce ==
    \/ InitWith({<<"plain">>}, {<<>>})
    \/ InitWith({<<"blockage">>}, Blockages)

\* One call of one of the two functions with the widest tolerance, the one
\* that links the most segments.
InitWidest == InitOnce /\ tolerance = MaxTol

\* The caller runs the plain traversal and then the blockage-aware one.
InitBoth ==
    InitWith({[i \in 1..MaxCalls |-> IF i = 1 THEN "plain" ELSE "blockage"]},
             Blockages)

(***************************************************************************)
(* The steps shared by the two functions, which are line-for-line copies   *)
(* of each other up to the blockage test.                                  *)
(***************************************************************************)
\* Lines 36-37 and 97-98: seed the frontier and the visited list.
Called(fn) ==
    /\ pc \in {"idle", "done"}
    /\ calls < Len(plan)
    /\ plan[calls + 1] = fn

Seed ==
    /\ calls' = calls + 1
    /\ possible_vertex' = RowsWithId(starting_fid)
    /\ found_vertex' = RowsWithId(starting_fid)
    /\ pc' = "while"
    /\ prev' = IF pc = "done"
               THEN [fn |-> Running, found |-> found_vertex,
                     expanded |-> expanded, selected |-> selected,
                     length |-> length, network |-> network]
               ELSE NoResult
    /\ expanded' = <<>>
    /\ truncated' = {}
    /\ feat' = 0
    /\ cur_coord' = <<0, 0>>
    /\ potential_fids' = <<>>
    /\ selected' = <<>>
    /\ length' = 0
    /\ UNCHANGED <<network, blockage, starting_fid, direction, tolerance,
                   err, plan, network0>>

\* Lines 39-56 and 100-117: pop the next id, take its leading endpoint and
\* query the ids whose geometry intersects the box around it.
WhileStep(fn) ==
    /\ pc = "while"
    /\ Running = fn

Pop ==
    /\ possible_vertex # <<>>
    /\ LET f == Head(possible_vertex)
           coords == network[f]
       IN  /\ feat' = f
           /\ possible_vertex' = Tail(possible_vertex)
           /\ expanded' = Append(expanded, f)
           /\ IF PyIndexOK(coords, LeadIndex(direction))
              THEN LET c == PyIndex(coords, LeadIndex(direction))
                       fids == ProximalFids(network, c, tolerance)
                   IN  /\ cur_coord' = c
                       /\ potential_fids' = fids
                       /\ pc' = IF fids = <<>> THEN "while" ELSE "for"
                       /\ err' = err
              ELSE /\ pc' = "error"
                   /\ err' = "IndexError"
                   /\ UNCHANGED <<cur_coord, potential_fids>>
    /\ UNCHANGED <<network, blockage, starting_fid, direction, tolerance,
                   found_vertex, selected, length, plan, calls, network0,
                   truncated, prev>>

\* The orders in which a proximity index may hand over the same ids.
OrdersOf(fids) ==
    {t \in [1..Len(fids) -> SeqSet(fids)] : SeqSet(t) = SeqSet(fids)}

\* Lines 39-56 and 100-117 with the result of the proximity query in any
\* order, not the row order of the frame.
PopAnyOrder ==
    /\ possible_vertex # <<>>
    /\ LET f == Head(possible_vertex)
           coords == network[f]
       IN  /\ feat' = f
           /\ possible_vertex' = Tail(possible_vertex)
           /\ expanded' = Append(expanded, f)
           /\ IF PyIndexOK(coords, LeadIndex(direction))
              THEN LET c == PyIndex(coords, LeadIndex(direction))
                       fids == ProximalFids(network, c, tolerance)
                   IN  /\ cur_coord' = c
                       /\ potential_fids' \in OrdersOf(fids)
                       /\ pc' = IF fids = <<>> THEN "while" ELSE "for"
                       /\ err' = err
              ELSE /\ pc' = "error"
                   /\ err' = "IndexError"
                   /\ UNCHANGED <<cur_coord, potential_fids>>
    /\ UNCHANGED <<network, blockage, starting_fid, direction, tolerance,
                   found_vertex, selected, length, plan, calls, network0,
                   truncated, prev>>

\* The candidate the for loop is at, and its far endpoint.
Candidate == Head(potential_fids)

NextCoord == PyIndex(network[Candidate], FarIndex(direction))

ForStep(fn) ==
    /\ pc = "for"
    /\ Running = fn
    /\ potential_fids # <<>>

NextCandidate ==
    /\ potential_fids' = Tail(potential_fids)
    /\ pc' = IF Tail(potential_fids) = <<>> THEN "while" ELSE "for"

\* Variant: a visited candidate within tolerance is enqueued again.
SkipAndReenqueue ==
    /\ InSeq(Candidate, found_vertex)
    /\ possible_vertex' = IF Connected(cur_coord, NextCoord, tolerance)
                          THEN Append(possible_vertex, Candidate)
                          ELSE possible_vertex
    /\ NextCandidate
    /\ UNCHANGED <<network, blockage, starting_fid, direction, tolerance,
                   found_vertex, feat, cur_coord, selected,
                   length, err, plan, calls, network0, expanded, truncated,
                   prev>>

\* Lines 60 and 121-122: a candidate already in found_vertex is passed over.
Skip ==
    /\ InSeq(Candidate, found_vertex)
    /\ NextCandidate
    /\ UNCHANGED <<network, blockage, starting_fid, direction, tolerance,
                   possible_vertex, found_vertex, feat, cur_coord, selected,
                   length, err, plan, calls, network0, expanded, truncated,
                   prev>>

\* Variant: a candidate out of tolerance is marked visited.
DiscardAndVisit ==
    /\ ~InSeq(Candidate, found_vertex)
    /\ ~Connected(cur_coord, NextCoord, tolerance)
    /\ found_vertex' = Append(found_vertex, Candidate)
    /\ NextCandidate
    /\ UNCHANGED <<network, blockage, starting_fid, direction, tolerance,
                   possible_vertex, feat, cur_coord, selected,
                   length, err, plan, calls, network0, expanded, truncated,
                   prev>>

\* Lines 61-70 and 123-132: a candidate whose far endpoint is farther than
\* tolerance from cur_coord is dropped.
Discard ==
    /\ ~InSeq(Candidate, found_vertex)
    /\ ~Connected(cur_coord, NextCoord, tolerance)
    /\ NextCandidate
    /\ UNCHANGED <<network, blockage, starting_fid, direction, tolerance,
                   possible_vertex, found_vertex, feat, cur_coord, selected,
                   length, err, plan, calls, network0, expanded, truncated,
                   prev>>

\* Variant: the candidate joins the visited list only.
AcceptWithoutEnqueue ==
    /\ found_vertex' = Append(found_vertex, Candidate)
    /\ NextCandidate
    /\ UNCHANGED <<network, blockage, starting_fid, direction, tolerance,
                   possible_vertex, feat, cur_coord, selected, length, err,
                   plan, calls, network0, expanded, truncated, prev>>

\* Variant: the candidate joins the frontier only.
EnqueueWithoutVisit ==
    /\ possible_vertex' = Append(possible_vertex, Candidate)
    /\ NextCandidate
    /\ UNCHANGED <<network, blockage, starting_fid, direction, tolerance,
                   found_vertex, feat, cur_coord, selected, length, err,
                   plan, calls, network0, expanded, truncated, prev>>

\* Lines 72-73 and 136-137: the candidate joins the visited list and the
\* frontier.
AcceptAndEnqueue ==
    /\ found_vertex' = Append(found_vertex, Candidate)
    /\ possible_vertex' = Append(possible_vertex, Candidate)
    /\ NextCandidate
    /\ UNCHANGED <<network, blockage, starting_fid, direction, tolerance,
                   feat, cur_coord, selected, length, err, plan, calls,
                   network0, expanded, truncated, prev>>

\* Lines 75-76 and 150-151: the rows whose id was visited, as stored now,
\* and the sum of their lengths.
Return ==
    /\ possible_vertex = <<>>
    /\ selected' = Selected(network, found_vertex)
    /\ length' = TotalLength(Selected(network, found_vertex))
    /\ pc' = "done"
    /\ UNCHANGED <<network, blockage, starting_fid, direction, tolerance,
                   possible_vertex, found_vertex, feat, cur_coord,
                   potential_fids, err, plan, calls, network0, expanded,
                   truncated, prev>>

(***************************************************************************)
(* calcWaterCourseLength                                                   *)
(***************************************************************************)
PlainSeed == Called("plain") /\ Seed

PlainPop == WhileStep("plain") /\ Pop

PlainPopAnyOrder == WhileStep("plain") /\ PopAnyOrder

PlainSkip == ForStep("plain") /\ Skip

PlainDiscard == ForStep("plain") /\ Discard

\* Variant: the test of line 60 is left out.
PlainAcceptVisited ==
    /\ ForStep("plain")
    /\ Connected(cur_coord, NextCoord, tolerance)
    /\ AcceptAndEnqueue

PlainAccept ==
    /\ ForStep("plain")
    /\ ~InSeq(Candidate, found_vertex)
    /\ Connected(cur_coord, NextCoord, tolerance)
    /\ AcceptAndEnqueue

PlainReturn == WhileStep("plain") /\ Return

(***************************************************************************)
(* calcWaterCourseLengthBlockage                                           *)
(***************************************************************************)
BlockSeed == Called("blockage") /\ Seed

BlockPop == WhileStep("blockage") /\ Pop

BlockPopAnyOrder == WhileStep("blockage") /\ PopAnyOrder

BlockSkip == ForStep("blockage") /\ Skip

BlockDiscard == ForStep("blockage") /\ Discard

\* Variant: the blockage test is left out.
BlockAcceptUntested ==
    /\ ForStep("blockage")
    /\ ~InSeq(Candidate, found_vertex)
    /\ Connected(cur_coord, NextCoord, tolerance)
    /\ AcceptAndEnqueue

\* Variant: the unblocked candidate is visited and not enqueued.
BlockAcceptVisitOnly ==
    /\ ForStep("blockage")
    /\ ~InSeq(Candidate, found_vertex)
    /\ Connected(cur_coord, NextCoord, tolerance)
    /\ TheBlockage(blockage, network[Candidate]) = <<>>
    /\ AcceptWithoutEnqueue

\* Lines 133-137: no blockage within the candidate's buffer.
BlockAccept ==
    /\ ForStep("blockage")
    /\ ~InSeq(Candidate, found_vertex)
    /\ Connected(cur_coord, NextCoord, tolerance)
    /\ TheBlockage(blockage, network[Candidate]) = <<>>
    /\ AcceptAndEnqueue

\* Variant: the truncated candidate is not appended to found_vertex.
BlockTruncateUnvisited ==
    /\ ForStep("blockage")
    /\ ~InSeq(Candidate, found_vertex)
    /\ Connected(cur_coord, NextCoord, tolerance)
    /\ TheBlockage(blockage, network[Candidate]) # <<>>
    /\ LET b == TheBlockage(blockage, network[Candidate])[1]
           line_til_weir == LineTilWeir(network[Candidate], b)
       IN  IF LineStringOK(line_til_weir)
           THEN /\ network' = [network EXCEPT ![Candidate] = line_til_weir]
                /\ truncated' = truncated \cup {Candidate}
                /\ NextCandidate
                /\ err' = err
           ELSE /\ pc' = "error"
                /\ err' = "ValueError"
                /\ UNCHANGED <<network, truncated, potential_fids>>
    /\ UNCHANGED <<blockage, starting_fid, direction, tolerance,
                   possible_vertex, found_vertex, feat, cur_coord, selected,
                   length, plan, calls, network0, expanded, prev>>

\* Variant: the truncated candidate is enqueued as well.
BlockTruncateAndEnqueue ==
    /\ ForStep("blockage")
    /\ ~InSeq(Candidate, found_vertex)
    /\ Connected(cur_coord, NextCoord, tolerance)
    /\ TheBlockage(blockage, network[Candidate]) # <<>>
    /\ LET b == TheBlockage(blockage, network[Candidate])[1]
           line_til_weir == LineTilWeir(network[Candidate], b)
       IN  IF LineStringOK(line_til_weir)
           THEN /\ network' = [network EXCEPT ![Candidate] = line_til_weir]
                /\ found_vertex' = Append(found_vertex, Candidate)
                /\ possible_vertex' = Append(possible_vertex, Candidate)
                /\ truncated' = truncated \cup {Candidate}
                /\ NextCandidate
                /\ err' = err
           ELSE /\ pc' = "error"
                /\ err' = "ValueError"
                /\ UNCHANGED <<network, found_vertex, possible_vertex,
                               truncated, potential_fids>>
    /\ UNCHANGED <<blockage, starting_fid, direction, tolerance,
                   feat, cur_coord, selected, length, plan,
                   calls, network0, expanded, prev>>

\* Lines 138-148: a blockage within the candidate's buffer; the stored
\* geometry becomes the vertices before the one nearest to the first such
\* blockage, and the candidate is visited without being enqueued.  The
\* LineString constructor raises on a single vertex, before anything is
\* stored or appended.
BlockTruncate ==
    /\ ForStep("blockage")
    /\ ~InSeq(Candidate, found_vertex)
    /\ Connected(cur_coord, NextCoord, tolerance)
    /\ TheBlockage(blockage, network[Candidate]) # <<>>
    /\ LET b == TheBlockage(blockage, network[Candidate])[1]
           line_til_weir == LineTilWeir(network[Candidate], b)
       IN  IF LineStringOK(line_til_weir)
           THEN /\ network' = [network EXCEPT ![Candidate] = line_til_weir]
                /\ found_vertex' = Append(found_vertex, Candidate)
                /\ truncated' = truncated \cup {Candidate}
                /\ NextCandidate
                /\ err' = err
           ELSE /\ pc' = "error"
                /\ err' = "ValueError"
                /\ UNCHANGED <<network, found_vertex, truncated,
                               potential_fids>>
    /\ UNCHANGED <<blockage, starting_fid, direction, tolerance,
                   possible_vertex, feat, cur_coord, selected, length, plan,
                   calls, network0, expanded, prev>>

BlockReturn == WhileStep("blockage") /\ Return

(***************************************************************************)
(* The caller.                                                             *)
(***************************************************************************)
\* Lines 165-167: the next call on the same frame is given another start id.
CallerChangesStart ==
    /\ pc = "done"
    /\ calls < Len(plan)
    /\ starting_fid' \in Ids \ {starting_fid}
    /\ UNCHANGED <<network, blockage, direction, tolerance, possible_vertex,
                   found_vertex, feat, cur_coord, potential_fids, selected,
                   length, pc, err, plan, calls, network0, expanded,
                   truncated, prev>>

(***************************************************************************)
(* Specifications.                                                         *)
(***************************************************************************)
NextPlain ==
    \/ PlainSeed
    \/ PlainPop
    \/ PlainSkip
    \/ PlainDiscard
    \/ PlainAccept
    \/ PlainReturn

NextBlock ==
    \/ BlockSeed
    \/ BlockPop
    \/ BlockSkip
    \/ BlockDiscard
    \/ BlockAccept
    \/ BlockTruncate
    \/ BlockReturn

Next == NextBlock

NextBoth == NextPlain \/ NextBlock

Spec == Init /\ [][Next]_vars

SpecPlain == InitPlain /\ [][NextPlain]_vars

SpecBoth == InitBoth /\ [][NextBoth]_vars

SpecCalls == InitCalls /\ [][NextBoth]_vars

\* The interpreter runs the statements of a call one after the other: a step
\* that can be taken is taken.
SpecFair == InitWidest /\ [][NextBoth]_vars /\ WF_vars(NextBoth)

\* Blockage-aware calls on one frame, from one start id and then another.
NextRestart == NextBlock \/ CallerChangesStart

SpecRestart == Init /\ [][NextRestart]_vars

\* Either function over a proximity index that returns the candidates in
\* any order.
NextAnyOrder ==
    \/ PlainSeed
    \/ PlainPopAnyOrder
    \/ PlainSkip
    \/ PlainDiscard
    \/ PlainAccept
    \/ PlainReturn
    \/ BlockSeed
    \/ BlockPopAnyOrder
    \/ BlockSkip
    \/ BlockDiscard
    \/ BlockAccept
    \/ BlockTruncate
    \/ BlockReturn

SpecAnyOrder == InitOnce /\ [][NextAnyOrder]_vars

TypeOK ==
    /\ pc \in {"idle", "while", "for", "done", "error"}
    /\ err \in {"none", "IndexError", "ValueError"}
    /\ calls \in 0..MaxCalls

(***************************************************************************)
(* Reference notions the properties are stated with.  They are written    *)
(* out on the vertex lists, apart from the operators of the traversal.     *)
(***************************************************************************)
First(coords) == coords[1]

Last(coords) == coords[Len(coords)]

\* The endpoint searched from (leading) and the endpoint of a candidate that
\* has to be near it (far): first and last vertex for direction 0, last and
\* first for direction 1.
LeadEnd(coords, dir) == IF dir = 0 THEN First(coords) ELSE Last(coords)

FarEnd(coords, dir) == IF dir = 0 THEN Last(coords) ELSE First(coords)

\* b follows a head-to-tail in the frame net.
Linked(net, a, b, dir, tol) ==
    /\ Len(net[a]) >= 2
    /\ Len(net[b]) >= 2
    /\ DistSq(LeadEnd(net[a], dir), FarEnd(net[b], dir)) <= tol * tol

\* The ids reachable from the ids S by chains of links whose members before
\* the last are all in through.
RECURSIVE ReachFrom(_, _, _, _, _)
ReachFrom(net, S, dir, tol, through) ==
    LET more == {b \in Ids : \E a \in S \cap through : Linked(net, a, b, dir, tol)}
    IN  IF more \subseteq S THEN S
        ELSE ReachFrom(net, S \cup more, dir, tol, through)

StartSet == {starting_fid} \cap Ids

Reachable(net) == ReachFrom(net, StartSet, direction, tolerance, Ids)

RECURSIVE SumOver(_, _)
SumOver(net, S) ==
    IF S = {} THEN 0
    ELSE LET r == CHOOSE q \in S : TRUE
         IN  Length(net[r]) + SumOver(net, S \ {r})

\* C1: when calcWaterCourseLength returns, the selection is exactly the set
\* of segments reachable from the start segment by head-to-tail chains
\* within tolerance, each with its stored geometry, and the length is the
\* sum of the lengths of exactly those segments.
C1_PlainSelectsReachable ==
    (pc = "done" /\ Running = "plain") =>
        /\ DOMAIN selected = Reachable(network0)
        /\ \A r \in DOMAIN selected : selected[r] = network0[r]
        /\ length = SumOver(network0, Reachable(network0))
        /\ (starting_fid \in Ids
              /\ (\A b \in Ids \ {starting_fid} :
                     ~Linked(network0, starting_fid, b, direction, tolerance)))
            => (DOMAIN selected = {starting_fid}
                  /\ length = Length(network0[starting_fid]))

\* A chain of three segments was traversed from one end.
C1_Witness ==
    /\ pc = "done"
    /\ Running = "plain"
    /\ network0 = (1 :> LineB @@ 2 :> LineC @@ 3 :> LineA)
    /\ starting_fid = 3
    /\ direction = 1
    /\ DOMAIN selected = {1, 2, 3}
    /\ length = 8

\* C9: in calcWaterCourseLength a candidate that is not yet visited is
\* accepted exactly when the squared distance between cur_coord and its far
\* endpoint is at most tolerance squared, and the box query returns every
\* segment whose far endpoint is within tolerance of cur_coord.
C9_ToleranceInclusive ==
    [][/\ (pc = "for" /\ ~InSeq(Head(potential_fids), found_vertex))
          => LET fid == Head(potential_fids)
                 within == DistSq(cur_coord, FarEnd(network[fid], direction))
                              <= tolerance * tolerance
             IN  /\ within => (InSeq(fid, found_vertex') /\ InSeq(fid, possible_vertex'))
                 /\ ~within => (found_vertex' = found_vertex
                                  /\ possible_vertex' = possible_vertex)
       /\ (Len(expanded') > Len(expanded) /\ pc' # "error")
          => \A r \in Ids :
                DistSq(cur_coord', FarEnd(network[r], direction))
                    <= tolerance * tolerance
                => InSeq(r, potential_fids')
      ]_vars

\* A candidate at distance exactly tolerance has just been accepted, and
\* another at a greater distance inside the box has been discarded.
C9_Witness ==
    /\ Running = "plain"
    /\ pc \in {"for", "while"}
    /\ Len(found_vertex) >= 2
    /\ feat # 0
    /\ DistSq(cur_coord, FarEnd(network[found_vertex[Len(found_vertex)]], direction))
          = tolerance * tolerance
    /\ \E r \in Ids :
          /\ ~InSeq(r, found_vertex)
          /\ ~InSeq(r, potential_fids)
          /\ InBox(FarEnd(network[r], direction), cur_coord, tolerance)
          /\ DistSq(cur_coord, FarEnd(network[r], direction)) > tolerance * tolerance

\* t splits into b1 and b2, and b2 does not lead back to the head of t or
\* of b1.
Fork(net, t, b1, b2, tol) ==
    /\ t # b1 /\ t # b2 /\ b1 # b2
    /\ DistSq(Last(net[t]), First(net[b1])) <= tol * tol
    /\ DistSq(Last(net[t]), First(net[b2])) <= tol * tol
    /\ DistSq(Last(net[b2]), First(net[b1])) > tol * tol
    /\ DistSq(Last(net[b2]), First(net[t])) > tol * tol
    /\ DistSq(Last(net[b2]), First(net[b2])) > tol * tol

\* C10: connections are followed head-to-tail.  Every segment visited after
\* the start was accepted from an expanded segment whose first vertex
\* (direction 0) or last vertex (direction 1) is within tolerance of its
\* last vertex (direction 0) or first vertex (direction 1); so from a branch
\* of a fork direction 0 never selects the sibling branch, and from the
\* trunk direction 1 selects both branches.
C10_HeadToTail ==
    Running = "plain" =>
        /\ \A i \in 2..Len(found_vertex) :
              \E e \in SeqSet(expanded) :
                 IF direction = 0
                 THEN DistSq(First(network[e]), Last(network[found_vertex[i]]))
                         <= tolerance * tolerance
                 ELSE DistSq(Last(network[e]), First(network[found_vertex[i]]))
                         <= tolerance * tolerance
        /\ \A t, b1, b2 \in Ids :
              Fork(network, t, b1, b2, tolerance) =>
                 /\ (direction = 0 /\ starting_fid = b1) => ~InSeq(b2, found_vertex)
                 /\ (direction = 1 /\ starting_fid = t /\ pc = "done")
                       => {b1, b2} \subseteq DOMAIN selected

\* From a branch of a fork, direction 0 has selected the trunk and not the
\* sibling branch.
C10_Witness ==
    /\ Running = "plain"
    /\ pc = "done"
    /\ direction = 0
    /\ \E t, b1, b2 \in Ids :
          /\ Fork(network, t, b1, b2, tolerance)
          /\ starting_fid = b1
          /\ t \in DOMAIN selected
          /\ b2 \notin DOMAIN selected

(***************************************************************************)
(* Blockages.                                                              *)
(***************************************************************************)
\* Some blockage point lies within the buffer of the vertex list.
Blocked(coords) ==
    \E i \in 1..Len(blockage) : WithinBuffer(blockage[i], coords, 1)

\* The blockage point the truncation of the vertex list goes by: the first,
\* in the order of the blockage collection, that lies within its buffer.
UsedBlockage(coords) ==
    blockage[CHOOSE i \in 1..Len(blockage) :
                /\ WithinBuffer(blockage[i], coords, 1)
                /\ \A j \in 1..(i - 1) : ~WithinBuffer(blockage[j], coords, 1)]

\* The 1-based position of the first vertex at the least distance from b.
NearestVertex(coords, b) ==
    CHOOSE i \in 1..Len(coords) :
        /\ \A j \in 1..Len(coords) : DistSq(coords[i], b) <= DistSq(coords[j], b)
        /\ \A j \in 1..(i - 1) : DistSq(coords[j], b) > DistSq(coords[i], b)

\* The segments that may be expanded: the start, and those without blockage.
Passable == StartSet \cup {a \in Ids : ~Blocked(NetworkIn[a])}

\* C2: in calcWaterCourseLengthBlockage a segment other than the start that
\* has a blockage within its buffer is never in the frontier and never
\* popped; a segment truncated is in the visited list; and every visited
\* segment is reached by a chain from the start none of whose inner members
\* has a blockage within its buffer (stated where a for loop has ended: the
\* visited list only grows inside one).
C2_BlockedNotEnqueued ==
    Running = "blockage" =>
        /\ \A r \in Ids \ StartSet :
              Blocked(NetworkIn[r]) =>
                 (~InSeq(r, possible_vertex) /\ ~InSeq(r, expanded))
        /\ \A r \in truncated : InSeq(r, found_vertex) /\ Blocked(NetworkIn[r])
        /\ pc # "for" =>
              SeqSet(found_vertex)
                 \subseteq ReachFrom(NetworkIn, StartSet, direction, tolerance, Passable)
        /\ pc = "done" =>
              DOMAIN selected
                 \subseteq ReachFrom(NetworkIn, StartSet, direction, tolerance, Passable)

\* A call on the frame as loaded returned with a segment truncated and a
\* segment behind it, reachable were there no blockage, left out.
C2_Witness ==
    /\ Running = "blockage"
    /\ calls = 1
    /\ pc = "done"
    /\ truncated # {}
    /\ \E r \in Reachable(network0) : r \notin DOMAIN selected

\* C3 as stated: no segment with a blockage within its buffer is ever
\* popped, the start segment included.
C3_NoBlockedSegmentExpanded ==
    Running = "blockage" =>
        \A e \in SeqSet(expanded) : ~Blocked(NetworkIn[e])

\* C3 as amended: no segment other than the start segment that has a blockage
\* within its buffer is ever popped; the start segment is popped whether or
\* not a blockage lies within its buffer.
C3_NoBlockedCandidateExpanded ==
    Running = "blockage" =>
        /\ \A e \in SeqSet(expanded) \ StartSet : ~Blocked(NetworkIn[e])
        /\ (pc = "done" /\ starting_fid \in Ids) => InSeq(starting_fid, expanded)

\* A call returned after popping a start segment that has a blockage within
\* its buffer, and truncating a candidate.
C3_Witness ==
    /\ Running = "blockage"
    /\ pc = "done"
    /\ starting_fid \in Ids
    /\ Blocked(NetworkIn[starting_fid])
    /\ InSeq(starting_fid, expanded)
    /\ truncated # {}

\* C4: calcWaterCourseLengthBlockage with an empty blockage collection,
\* called after calcWaterCourseLength with the same arguments, visits and
\* pops the same ids in the same order, returns the same selection and the
\* same length, and leaves the frame as it was loaded.
C4_NoBlockageEquivalence ==
    (Running = "blockage" /\ blockage = <<>>) =>
        /\ network = network0
        /\ (pc = "done" /\ prev.fn # "none") =>
              /\ found_vertex = prev.found
              /\ expanded = prev.expanded
              /\ selected = prev.selected
              /\ length = prev.length

\* Both functions returned all three segments of a chain.
C4_Witness ==
    /\ Running = "blockage"
    /\ blockage = <<>>
    /\ pc = "done"
    /\ prev.fn = "plain"
    /\ Len(prev.found) = 3
    /\ Len(found_vertex) = 3
    /\ length > 0

\* C5 as stated: a second blockage-aware call with the same arguments on the
\* frame the first one left returns the same selection with the same stored
\* geometries and the same length, and pops the same segments.
C5_RerunSame ==
    (Running = "blockage" /\ prev.fn = "blockage") =>
        /\ pc # "error"
        /\ pc = "done" =>
              /\ selected = prev.selected
              /\ length = prev.length
              /\ network = prev.network
              /\ SeqSet(expanded) = SeqSet(prev.expanded)

\* C6 as stated: the truncation never raises; the stored geometry of a
\* truncated segment is the vertices before the nearest one, the segment is
\* visited, and the call returns it, with length 0 when at most one vertex
\* is kept.
C6_TruncationCompletes ==
    Running = "blockage" =>
        /\ err # "ValueError"
        /\ \A r \in truncated :
              LET old == NetworkIn[r]
                  i == NearestVertex(old, UsedBlockage(old)) - 1
              IN  /\ network[r] = Prefix(old, i)
                  /\ InSeq(r, found_vertex)
                  /\ pc = "done" =>
                        /\ r \in DOMAIN selected
                        /\ i <= 1 => Length(selected[r]) = 0

\* C7 as stated: the stored vertex list of a truncated segment is a prefix
\* of the original one whose last vertex is the vertex nearest to the
\* blockage point.
C7_PrefixEndsAtNearest ==
    Running = "blockage" =>
        \A r \in truncated :
           LET old == NetworkIn[r]
               i == NearestVertex(old, UsedBlockage(old))
           IN  /\ IsPrefixOf(network[r], old)
               /\ network[r] # <<>>
               /\ Last(network[r]) = old[i]

\* The vertex list runs along one straight line from its first vertex to its
\* last, and b is the midpoint of the two.
StraightWithMidpoint(coords, b) ==
    /\ Len(coords) >= 2
    /\ \A i \in 1..Len(coords) :
          /\ Orient(First(coords), Last(coords), coords[i]) = 0
          /\ OnSegment(First(coords), Last(coords), coords[i])
    /\ 2 * b[1] = First(coords)[1] + Last(coords)[1]
    /\ 2 * b[2] = First(coords)[2] + Last(coords)[2]

\* C8 as stated: a straight segment reached with a blockage at its midpoint
\* is left with a non-empty geometry of positive length at most half the
\* original length, and the returned length is the sum over the selection
\* of the stored lengths.
C8_MidpointHalves ==
    Running = "blockage" =>
        /\ \A r \in truncated :
              LET old == NetworkIn[r]
              IN  StraightWithMidpoint(old, UsedBlockage(old)) =>
                     /\ network[r] # <<>>
                     /\ Length(network[r]) > 0
                     /\ 2 * Length(network[r]) <= Length(old)
        /\ (pc = "error" /\ err = "ValueError") =>
              LET old == network[Head(potential_fids)]
              IN  ~StraightWithMidpoint(old, UsedBlockage(old))
        /\ pc = "done" => length = SumOver(network, DOMAIN selected)

(***************************************************************************)
(* Start id, frame effect, accumulation and the worklist invariants.       *)
(***************************************************************************)
\* C11: with a start id that is no key of the network, either function
\* seeds found_vertex and possible_vertex empty, pops nothing, raises
\* nothing, returns an empty selection and length 0, and leaves the frame as
\* it was.
C11_UnknownStartEmpty ==
    (starting_fid \notin Ids /\ calls >= 1) =>
        /\ found_vertex = <<>>
        /\ possible_vertex = <<>>
        /\ expanded = <<>>
        /\ pc \in {"while", "done"}
        /\ err = "none"
        /\ network = network0
        /\ pc = "done" => (selected = <<>> /\ length = 0)

\* Both functions have returned for an absent start id, the second with
\* blockage points given.
C11_Witness ==
    /\ starting_fid \notin Ids
    /\ pc = "done"
    /\ Running = "blockage"
    /\ prev.fn = "plain"
    /\ blockage # <<>>
    /\ selected = <<>>
    /\ length = 0

\* C14: the length calcWaterCourseLengthBlockage returns is the sum, over
\* the ids of found_vertex, of the length of the geometry stored when the
\* loop ends: the geometry the call received for the accepted segments and
\* the stored prefix for the truncated ones.
C14_LengthOfStored ==
    (Running = "blockage" /\ pc = "done") =>
        /\ DOMAIN selected = SeqSet(found_vertex)
        /\ length = SumOver(network, SeqSet(found_vertex))
        /\ \A r \in SeqSet(found_vertex) :
              /\ selected[r] = network[r]
              /\ r \notin truncated => network[r] = NetworkIn[r]
              /\ r \in truncated =>
                    /\ IsPrefixOf(network[r], NetworkIn[r])
                    /\ Len(network[r]) < Len(NetworkIn[r])

\* A call returned a selection with an accepted segment and a truncated one
\* of positive stored length shorter than it was.
C14_Witness ==
    /\ Running = "blockage"
    /\ pc = "done"
    /\ \E r \in truncated :
          /\ Length(network[r]) > 0
          /\ Length(network[r]) < Length(NetworkIn[r])
    /\ \E r \in SeqSet(found_vertex) \ truncated : r # starting_fid
    /\ length = SumOver(network, SeqSet(found_vertex))

\* C16: in every state of both functions every id of possible_vertex is in
\* found_vertex, and every id of found_vertex is a key of the network.
C16_FrontierVisited ==
    /\ SeqSet(possible_vertex) \subseteq SeqSet(found_vertex)
    /\ SeqSet(found_vertex) \subseteq DOMAIN network
    /\ DOMAIN network = Ids

\* Two accepted segments wait in the frontier of the blockage-aware call.
C16_Witness ==
    /\ Running = "blockage"
    /\ Len(possible_vertex) = 2
    /\ Len(found_vertex) = 3

\* C17: found_vertex and possible_vertex never hold an id twice, and within
\* a call every step leaves found_vertex as it is or appends one id that was
\* not in it.
C17_VisitedOnce ==
    [][/\ NoDup(found_vertex')
       /\ NoDup(possible_vertex')
       /\ calls' = calls =>
             \/ found_vertex' = found_vertex
             \/ \E r \in Ids : /\ ~InSeq(r, found_vertex)
                               /\ found_vertex' = Append(found_vertex, r)
      ]_vars

\* A visited segment lies within tolerance of two popped segments, one of
\* them itself, and was passed over.
C17_Witness ==
    /\ pc = "done"
    /\ Len(found_vertex) = 3
    /\ \E r \in SeqSet(expanded) :
          /\ Linked(network, r, r, direction, tolerance)
          /\ \E e \in SeqSet(expanded) \ {r} :
                Linked(network, e, r, direction, tolerance)

\* C20: within one call of calcWaterCourseLengthBlockage every popped
\* segment has the geometry the call received, and a segment truncated in
\* the call is visited, is never in the frontier and is never popped.
C20_ExpandedUntruncated ==
    Running = "blockage" =>
        /\ \A e \in SeqSet(expanded) :
              e \notin truncated /\ network[e] = NetworkIn[e]
        /\ \A r \in truncated :
              /\ InSeq(r, found_vertex)
              /\ ~InSeq(r, possible_vertex)
              /\ network[r] # NetworkIn[r]

\* A segment was popped after another had been truncated in the same call.
C20_Witness ==
    /\ Running = "blockage"
    /\ truncated # {}
    /\ Len(expanded) >= 2
    /\ \E r \in truncated :
          InSeq(r, Prefix(found_vertex, Len(found_vertex) - 1))
    /\ pc = "for"
    /\ expanded[Len(expanded)] # starting_fid

\* C12: a step changes the frame only in calcWaterCourseLengthBlockage, only
\* in the geometry of the one candidate that has a blockage within its
\* buffer and was not yet visited nor written in this call, leaving the ids
\* and every other geometry as they were; calcWaterCourseLength changes
\* nothing, and called again returns what it returned before.
C12_OnlyTruncationWrites ==
    [][/\ DOMAIN network' = DOMAIN network
       /\ network' # network =>
             /\ Running = "blockage"
             /\ pc = "for"
             /\ LET fid == Head(potential_fids)
                IN  /\ Blocked(network[fid])
                    /\ fid \notin truncated
                    /\ fid # starting_fid
                    /\ ~InSeq(fid, found_vertex)
                    /\ InSeq(fid, found_vertex')
                    /\ ~InSeq(fid, possible_vertex')
                    /\ \A r \in Ids \ {fid} : network'[r] = network[r]
       /\ \A r \in Ids \ truncated' : network'[r] = NetworkIn'[r]
       /\ (pc' = "done" /\ Running' = "plain" /\ prev'.fn = "plain") =>
             /\ network' = network0
             /\ found_vertex' = prev'.found
             /\ selected' = prev'.selected
             /\ length' = prev'.length
      ]_vars

\* A blockage-aware call returned three segments, one of them truncated and
\* the others as received; or the plain call returned three segments for
\* the second time.
C12_Witness ==
    /\ pc = "done"
    /\ Len(found_vertex) = 3
    /\ \/ /\ Running = "blockage"
          /\ Cardinality(truncated) = 1
          /\ network # NetworkIn
       \/ /\ Running = "plain"
          /\ prev.fn = "plain"
          /\ Len(prev.found) = 3

\* What a call returns, told without any order: the geometry a visited
\* segment ends with.
FinalGeometry(r) ==
    IF r \in StartSet \/ ~Blocked(NetworkIn[r])
    THEN NetworkIn[r]
    ELSE Prefix(NetworkIn[r],
                NearestVertex(NetworkIn[r], UsedBlockage(NetworkIn[r])) - 1)

RECURSIVE SumFinal(_)
SumFinal(S) ==
    IF S = {} THEN 0
    ELSE LET r == CHOOSE q \in S : TRUE
         IN  Length(FinalGeometry(r)) + SumFinal(S \ {r})

\* C13: whatever the order in which the proximity query hands over the
\* candidates at each step, either function returns the same ids, the same
\* stored geometry for each and the same length: those fixed by the frame
\* the call received, the start id, the direction, the tolerance and the
\* blockage collection.
C13_OrderIndependent ==
    pc = "done" =>
        LET visited == ReachFrom(NetworkIn, StartSet, direction, tolerance, Passable)
        IN  /\ DOMAIN selected = visited
            /\ \A r \in visited : selected[r] = FinalGeometry(r)
            /\ length = SumFinal(visited)

\* A blockage-aware call returned after taking two candidates of its first
\* pop against the row order, one of them truncated.
C13_Witness ==
    /\ Running = "blockage"
    /\ pc = "done"
    /\ Len(found_vertex) = 3
    /\ found_vertex[2] > found_vertex[3]
    /\ Linked(NetworkIn, found_vertex[1], found_vertex[2], direction, tolerance)
    /\ Linked(NetworkIn, found_vertex[1], found_vertex[3], direction, tolerance)
    /\ truncated # {}

\* C15 as stated: a segment with fewer than 2 vertices never makes a call
\* fail; it is no candidate of the proximity matching, and as the start
\* segment it has no endpoint to search from and length 0, the call
\* returning it alone.
C15_DegenerateNeverFails ==
    /\ err # "IndexError"
    /\ \A r \in SeqSet(found_vertex) \ StartSet : Len(NetworkIn[r]) >= 2
    /\ (pc = "done" /\ starting_fid \in Ids /\ Len(NetworkIn[starting_fid]) < 2) =>
          /\ DOMAIN selected = {starting_fid}
          /\ length = 0

\* C18: every call of either function ends, by returning or by raising; in a
\* call no id is popped twice, the while loop pops at most as many ids as the
\* network has segments, and a segment truncated in the call is never in
\* the frontier.
C18_Terminates ==
    /\ [](/\ NoDup(expanded)
          /\ Len(expanded) <= Cardinality(Ids)
          /\ truncated \cap SeqSet(possible_vertex) = {})
    /\ (pc \in {"while", "for"}) ~> (pc \in {"done", "error"})

\* A call over a cycle of segments, the first popped within tolerance of the
\* last popped, has returned after a truncation.
C18_Witness ==
    /\ pc = "done"
    /\ Len(expanded) >= 2
    /\ truncated # {}
    /\ \A i \in 1..(Len(expanded) - 1) :
          Linked(NetworkIn, expanded[i], expanded[i + 1], direction, tolerance)
    /\ Linked(NetworkIn, expanded[Len(expanded)], expanded[1], direction, tolerance)

\* C19 as stated: for both directions the stored prefix of a truncated
\* segment holds the endpoint by which the segment was connected (its far
\* endpoint for the direction), the kept part running from there towards
\* the blockage.
C19_KeptPartOnTraversalSide ==
    Running = "blockage" =>
        \A r \in truncated :
           \E i \in 1..Len(network[r]) :
              network[r][i] = FarEnd(NetworkIn[r], direction)

====
